---- MODULE Spec2Model ----
(***************************************************************************)
(* A model of the physics-informed training notebook pinn-demo.ipynb:      *)
(* the random collocation dataset, the PDE and boundary residuals, the     *)
(* training step of the LightningModule, the trainer's fit loop driving    *)
(* it, and the seeded Xavier initialisation of the network.                *)
(*                                                                         *)
(* Numbers.  Coordinates are fixed point: a coordinate value v is held as  *)
(* the integer v * RngMod, so that a uniform draw d / RngMod in [0,1) of   *)
(* the generator multiplies exactly.  Network outputs, residuals and       *)
(* losses are held in a scaled-down floating point type: an integer of     *)
(* magnitude at most MaxFloat, an infinity, or NaN, with IEEE rules for    *)
(* overflow and for arithmetic on the non-finite values.                   *)
(*                                                                         *)
(* The network.  The tanh network itself is not evaluated.  While its      *)
(* parameters are finite, its output and its two input derivatives at a    *)
(* point (a "jet") are an input drawn from the set Jets; once a parameter  *)
(* is NaN every output and derivative is NaN.                              *)
(***************************************************************************)
EXTENDS Integers, Sequences, FiniteSets, TLC

VARIABLES
    boundx, boundt, n,        \* RandomBoundedDataset fields
    batch_size, max_epochs,   \* DataLoader batch size, Trainer(max_epochs)
    rng,                      \* state of torch's global random generator
    phase,                    \* "Initialized", "Training" or "Completed"
    pc,                       \* position inside the fit loop
    current_epoch, batch_idx, global_step,
    batch,                    \* the samples __getitem__ returned for this batch
    bc,                       \* the points boundary_error drew in this step
    pde_error_, boundary_error_,  \* the residual vectors of this step
    logged,                   \* the self.log calls of this step, in order
    logcount,                 \* per key, the self.log calls since fit started
    loss,                     \* what training_step returned
    grad,                     \* the parameters' .grad: "none", "finite", "nonfinite"
    params,                   \* the network's parameters: finiteness and version
    plotted,                  \* the evaluation cell after fit has run
    pde_net, pde_jets, pde_out,   \* a direct call of pde_error
    runs                      \* two executions of the seeding/initialisation cell

train_vars == <<boundx, boundt, n, batch_size, max_epochs, rng, phase, pc,
                current_epoch, batch_idx, global_step, batch, bc, pde_error_,
                boundary_error_, logged, logcount, loss, grad, params, plotted>>
pde_vars == <<pde_net, pde_jets, pde_out>>
vars == <<train_vars, pde_vars, runs>>

----------------------------------------------------------------------------
(* Bounds of the model *)

MaxCoord == 2       \* domain bounds range over 0..MaxCoord
MaxN == 3           \* dataset length n ranges over 1..MaxN
MaxB == 2           \* batch_size ranges over 1..MaxB
MaxEpochs == 2      \* max_epochs ranges over 1..MaxEpochs
RngBits == 2        \* the generator has 2^RngBits states and draw values
MaxFloat == 40      \* largest finite magnitude of the scaled-down float type
MaxLayers == 2      \* n_hidden_layers ranges over 1..MaxLayers
MaxNeurons == 2     \* neurons ranges over 1..MaxNeurons
MaxAmp == 6         \* the oracle's values range over 0..MaxAmp

RECURSIVE Pow2(_)
Pow2(k) == IF k = 0 THEN 1 ELSE 2 * Pow2(k - 1)

RngMod == Pow2(RngBits)

Min(a, b) == IF a < b THEN a ELSE b

----------------------------------------------------------------------------
(* The scaled-down floating point type *)

Fin(v) == [k |-> "fin", v |-> v]
Inf(s) == [k |-> "inf", v |-> s]
NaN == [k |-> "nan", v |-> 0]

IsFinite(a) == a.k = "fin"

\* Op applied to the values of its arguments: each argument is evaluated once
Strict1(Op(_), a) == CHOOSE r \in {Op(x) : x \in {a}} : TRUE
Strict2(Op(_, _), a, b) == CHOOSE r \in {Op(x, y) : x \in {a}, y \in {b}} : TRUE

SgnOf(v) == IF v > 0 THEN 1 ELSE IF v < 0 THEN -1 ELSE 0
Sgn(v) == Strict1(SgnOf, v)

AbsOf(v) == IF v < 0 THEN -v ELSE v
Abs(v) == Strict1(AbsOf, v)

\* rounding of an exact result: beyond the largest finite value it overflows
RoundOf(v) == IF v > MaxFloat THEN Inf(1) ELSE IF v < -MaxFloat THEN Inf(-1) ELSE Fin(v)
Round(v) == Strict1(RoundOf, v)

AddOf(a, b) ==
    IF a.k = "nan" \/ b.k = "nan" THEN NaN
    ELSE IF a.k = "inf" /\ b.k = "inf" THEN (IF a.v = b.v THEN a ELSE NaN)
    ELSE IF a.k = "inf" THEN a
    ELSE IF b.k = "inf" THEN b
    ELSE Round(a.v + b.v)
FAdd(a, b) == Strict2(AddOf, a, b)

NegOf(a) == IF a.k = "nan" THEN NaN ELSE [k |-> a.k, v |-> -a.v]
FNeg(a) == Strict1(NegOf, a)

FSub(a, b) == FAdd(a, FNeg(b))

MulOf(a, b) ==
    IF a.k = "nan" \/ b.k = "nan" THEN NaN
    ELSE IF a.k = "inf" \/ b.k = "inf"
         THEN (IF SgnOf(a.v) * SgnOf(b.v) = 0 THEN NaN ELSE Inf(SgnOf(a.v) * SgnOf(b.v)))
    ELSE Round(a.v * b.v)
FMul(a, b) == Strict2(MulOf, a, b)

\* division by a positive count, rounding towards zero
DivNOf(a, c) == IF a.k = "fin" THEN Fin(SgnOf(a.v) * (AbsOf(a.v) \div c)) ELSE a
FDivN(a, c) == Strict2(DivNOf, a, c)

\* the sum of the first k elements of s, added from left to right
RECURSIVE FSumTo(_, _)
FSumTo(s, k) == IF k = 0 THEN Fin(0) ELSE FAdd(FSumTo(s, k - 1), s[k])

FSum(s) == Strict1(LAMBDA x : FSumTo(x, Len(x)), s)

----------------------------------------------------------------------------
(* torch's global random generator: a full-period congruential generator   *)
(* on RngMod states; torch.rand returns state / RngMod, a value in [0,1)   *)

NextRng(s) == (5 * s + 1) % RngMod

\* the numerators of the k draws made from state s, and the state after them
RECURSIVE Draws(_, _)
Draws(s, k) == IF k = 0 THEN <<>> ELSE <<NextRng(s)>> \o Draws(NextRng(s), k - 1)

RECURSIVE After(_, _)
After(s, k) == IF k = 0 THEN s ELSE After(NextRng(s), k - 1)

\* torch.manual_seed(seed)
ManualSeed(seed) == seed % RngMod

----------------------------------------------------------------------------
(* RandomBoundedDataset and the DataLoader over it *)

\* __getitem__ scaling the draw by the upper bound instead of by the width
getitem_upper(bx, bt, s) ==
    LET d == Draws(s, 2)
    IN [x |-> d[1] * bx[2] + bx[1] * RngMod,
        t |-> d[2] * bt[2] + bt[1] * RngMod]

\* __getitem__: two draws d, x = d[0]*(boundx[1]-boundx[0]) + boundx[0] and the
\* same for t; the index is not used.  s is the generator state before the call.
getitem(bx, bt, s) ==
    LET d == Draws(s, 2)
    IN [x |-> d[1] * (bx[2] - bx[1]) + bx[1] * RngMod,
        t |-> d[2] * (bt[2] - bt[1]) + bt[1] * RngMod]

\* __init__: the bounds and the length are stored as given, unchecked
RandomBoundedDataset(len, bx, bt) == [n |-> len, boundx |-> bx, boundt |-> bt]

\* __len__
dataset_len == n

\* a loader that drops the incomplete last batch
NumBatches_droplast(len, b) == len \div b

\* len(train_loader): DataLoader(dataset, batch_size), drop_last left False
NumBatches(len, b) == (len + b - 1) \div b

\* the number of samples the loader collates into batch number idx
BatchLen(len, b, idx) == Min(b, len - idx * b)

----------------------------------------------------------------------------
(* The network, seen through its jets *)

Jet(u, ux, ut) == [u |-> Fin(u), ux |-> Fin(ux), ut |-> Fin(ut)]
NaNJet == [u |-> NaN, ux |-> NaN, ut |-> NaN]

\* the least magnitude whose square overflows, and whose double overflows
SqOver == CHOOSE v \in 1..(MaxFloat + 1) : v * v > MaxFloat /\ (v - 1) * (v - 1) <= MaxFloat
GradOver == (MaxFloat \div 2) + 1

\* what a network with finite parameters may return at a point: a small
\* residual, a residual whose square overflows, a residual whose double overflows
Jets == {Jet(1, 0, 1), Jet(1, SqOver - 1, -1), Jet(-GradOver, 0, 0)}

\* PINNNet.forward with autograd: the jets the network may have at m points
NetJets(p, m) == [1..m -> (IF p.finite THEN Jets ELSE {NaNJet})]

\* PINNNet.forward alone: the outputs the network may have at m points
NetOutputs(p, m) == [1..m -> {j.u : j \in (IF p.finite THEN Jets ELSE {NaNJet})}]

----------------------------------------------------------------------------
(* The two residuals and the loss *)

\* pde_error with the sign of the u_t term turned
pde_error_plus(jets) ==
    [i \in 1..Len(jets) |->
        FSub(FAdd(jets[i].ux, FMul(Fin(2), jets[i].ut)), jets[i].u)]

\* pde_error: pde = u_x - 2*u_t - u at every point of the batch
pde_error(jets) ==
    [i \in 1..Len(jets) |->
        FSub(FSub(jets[i].ux, FMul(Fin(2), jets[i].ut)), jets[i].u)]

\* boundary_error, the points: x_bc = rand((m,1))*2, t_bc = zeros((m,1))
boundary_points(s, m) ==
    LET d == Draws(s, m) IN [i \in 1..m |-> [x |-> d[i] * 2, t |-> 0]]

\* 6*exp(-3*x) rounded to the nearest unit: it is at least k - 1/2 exactly when
\* x <= ln(6/(k - 1/2))/3, given here in thousandths for k = 1..6
ExpThreshold == <<828, 462, 291, 179, 95, 29>>
u_bc(x) == Cardinality({k \in 1..6 : 1000 * x <= ExpThreshold[k] * RngMod})

\* boundary_error, the value: net(x_bc, t_bc) - u_bc
boundary_error(us, pts) ==
    [i \in 1..Len(pts) |-> FSub(us[i], Fin(u_bc(pts[i].x)))]

\* nn.MSELoss()(input, target) against the all-zero target y of the batch.
\* pde_error_ has y's shape (m,1,1) and is compared element by element
\* (copies = 1); boundary_error_ has shape (m,1) and broadcasts against y to
\* (m,m,1), so that each of its elements is counted copies = m times.
MSELoss(input, copies) ==
    LET sq == [i \in 1..Len(input) |-> FMul(input[i], input[i])]
        row == FSum(sq)
        all == FSum([c \in 1..copies |-> row])
    IN FDivN(all, Len(input) * copies)

\* the total loss of a step
total_loss(pde_loss, boundary_loss) == FAdd(pde_loss, boundary_loss)

\* logging the PDE loss alone as the total
step_logs_pde(pde_loss, boundary_loss, total) ==
    << [key |-> "pde_loss", value |-> pde_loss],
       [key |-> "boundary_loss", value |-> boundary_loss],
       [key |-> "loss", value |-> pde_loss] >>

\* the three self.log calls of a step, in order
step_logs(pde_loss, boundary_loss, total) ==
    << [key |-> "pde_loss", value |-> pde_loss],
       [key |-> "boundary_loss", value |-> boundary_loss],
       [key |-> "loss", value |-> total] >>

\* handing boundary_error the configured batch size
boundary_n_full(x) == batch_size

\* the count handed to boundary_error: n=len(x)
boundary_n(x) == Len(x)

Keys == {"pde_loss", "boundary_loss", "loss"}

CountKey(logs, key) == Cardinality({i \in 1..Len(logs) : logs[i].key = key})

----------------------------------------------------------------------------
(* Backward pass and optimizer *)

\* the derivative of the mean squared error with respect to one input element
\* among count: 2 * (input - target) / count
MseGradOf(r, count) ==
    IF r.k = "fin" THEN Round(SgnOf(r.v) * ((2 * AbsOf(r.v)) \div count)) ELSE FMul(Fin(2), r)
MseGrad(r, count) == Strict2(MseGradOf, r, count)

\* d loss / d (bias of the output layer).  The output u contains that bias with
\* coefficient 1 and u_x, u_t do not contain it, so each PDE residual has
\* derivative -1 and each boundary residual +1 with respect to it.
BiasGrad(pe, be) ==
    LET m == Len(be)
        gp == [i \in 1..Len(pe) |-> FNeg(MseGrad(pe[i], Len(pe)))]
        gb == [i \in 1..m |-> FSum([c \in 1..m |-> MseGrad(be[i], m * m)])]
    IN FAdd(FSum(gp), FSum(gb))

\* an optimizer that applies its update twice
AdamStep_twice(p, g) == [finite |-> p.finite /\ g = "finite", version |-> p.version + 2]

\* an optimizer that skips the update when the gradient is not finite
AdamStep_guarded(p, g) ==
    IF g = "finite" THEN [finite |-> p.finite, version |-> p.version + 1] ELSE p

\* optimizer.step() of Adam: every parameter moves by lr * m / (sqrt(v) + eps);
\* a NaN or infinite gradient makes the moments, and so the parameter, NaN,
\* and a NaN parameter stays NaN.  Each step writes the parameters once.
AdamStep(p, g) == [finite |-> p.finite /\ g = "finite", version |-> p.version + 1]

----------------------------------------------------------------------------
(* The training run: trainer.fit(model, train_loader) *)

NoFloat == [k |-> "none", v |-> 0]

pde_idle == pde_net = "none" /\ pde_jets = <<>> /\ pde_out = <<>>
runs_idle == runs = <<>>

Coords == 0..MaxCoord

\* the state after the cells that build dataset, loader, model and trainer
TrainFields ==
    /\ phase = "Initialized"
    /\ pc = "idle"
    /\ current_epoch = 0
    /\ batch_idx = 0
    /\ global_step = 0
    /\ batch = <<>>
    /\ bc = <<>>
    /\ pde_error_ = <<>>
    /\ boundary_error_ = <<>>
    /\ logged = <<>>
    /\ logcount = [key \in Keys |-> 0]
    /\ loss = NoFloat
    /\ grad = "none"
    /\ params = [finite |-> TRUE, version |-> 0]
    /\ plotted = FALSE

TrainStart ==
    /\ rng \in 0..(RngMod - 1)
    /\ TrainFields
    /\ pde_idle
    /\ runs_idle

\* no training run: the dataset and trainer cells have run, fit is not called
train_idle ==
    /\ boundx = <<0, 2>>
    /\ boundt = <<0, 1>>
    /\ n = 1
    /\ batch_size = 1
    /\ max_epochs = 1
    /\ rng = 0
    /\ TrainFields

\* the notebook's domain, every dataset length, batch size and epoch count
Init ==
    /\ \E len \in 1..MaxN :
         LET dataset == RandomBoundedDataset(len, <<0, 2>>, <<0, 1>>)
         IN boundx = dataset.boundx /\ boundt = dataset.boundt /\ n = dataset.n
    /\ batch_size \in 1..MaxB
    /\ max_epochs \in 1..MaxEpochs
    /\ TrainStart

\* every domain RandomBoundedDataset can be constructed with, one short run
InitDomain ==
    /\ \E bx \in Coords \X Coords, bt \in Coords \X Coords :
         LET dataset == RandomBoundedDataset(2, bx, bt)
         IN boundx = dataset.boundx /\ boundt = dataset.boundt /\ n = dataset.n
    /\ batch_size = 1
    /\ max_epochs = 1
    /\ TrainStart

config_vars == <<boundx, boundt, n, batch_size, max_epochs>>
other_vars == <<pde_vars, runs>>

\* trainer.fit is entered
FitStart ==
    /\ phase = "Initialized"
    /\ phase' = "Training"
    /\ pc' = "fetch"
    /\ UNCHANGED <<config_vars, rng, current_epoch, batch_idx, global_step, batch, bc,
                   pde_error_, boundary_error_, logged, logcount, loss, grad, params,
                   plotted, other_vars>>

\* the loader calls dataset[index] for the next index of the current batch
GetItem ==
    /\ phase = "Training"
    /\ pc = "fetch"
    /\ batch_idx < NumBatches(dataset_len, batch_size)
    /\ Len(batch) < BatchLen(dataset_len, batch_size, batch_idx)
    /\ batch' = Append(batch, getitem(boundx, boundt, rng))
    /\ rng' = After(rng, 2)
    /\ pc' = IF Len(batch') = BatchLen(dataset_len, batch_size, batch_idx)
             THEN "training_step" ELSE "fetch"
    /\ UNCHANGED <<config_vars, phase, current_epoch, batch_idx, global_step, bc,
                   pde_error_, boundary_error_, logged, logcount, loss, grad, params,
                   plotted, other_vars>>

\* PINN.training_step(batch, batch_idx)
TrainingStep ==
    /\ phase = "Training"
    /\ pc = "training_step"
    /\ LET m == boundary_n(batch)
       IN \E jp \in NetJets(params, Len(batch)), ub \in NetOutputs(params, m) :
            \E pe \in {pde_error(jp)}, pts \in {boundary_points(rng, m)} :
            \E pde_loss \in {MSELoss(pe, 1)}, be \in {boundary_error(ub, pts)} :
            \E boundary_loss \in {MSELoss(be, Len(batch))} :
            \E total \in {total_loss(pde_loss, boundary_loss)} :
            \E logs \in {step_logs(pde_loss, boundary_loss, total)} :
               /\ pde_error_' = pe
               /\ bc' = pts
               /\ rng' = After(rng, m)
               /\ boundary_error_' = be
               /\ logged' = logs
               /\ logcount' = [key \in Keys |-> logcount[key] + CountKey(logs, key)]
               /\ loss' = total
    /\ pc' = "backward"
    /\ UNCHANGED <<config_vars, phase, current_epoch, batch_idx, global_step, batch,
                   grad, params, plotted, other_vars>>

\* optimizer.zero_grad() and loss.backward().  The gradient of the output bias
\* is computed; a gradient of another parameter may overflow as well.
Backward ==
    /\ phase = "Training"
    /\ pc = "backward"
    /\ \E overflow \in BOOLEAN :
         grad' = IF IsFinite(BiasGrad(pde_error_, boundary_error_)) /\ ~overflow
                 THEN "finite" ELSE "nonfinite"
    /\ pc' = "optimizer_step"
    /\ UNCHANGED <<config_vars, rng, phase, current_epoch, batch_idx, global_step,
                   batch, bc, pde_error_, boundary_error_, logged, logcount, loss,
                   params, plotted, other_vars>>

\* optimizer.step(), and the loop moves on to the next batch
OptimizerStep ==
    /\ phase = "Training"
    /\ pc = "optimizer_step"
    /\ params' = AdamStep(params, grad)
    /\ global_step' = global_step + 1
    /\ batch_idx' = batch_idx + 1
    /\ batch' = <<>>
    /\ bc' = <<>>
    /\ pde_error_' = <<>>
    /\ boundary_error_' = <<>>
    /\ logged' = <<>>
    /\ loss' = NoFloat
    /\ pc' = "fetch"
    /\ UNCHANGED <<config_vars, rng, phase, current_epoch, logcount, grad, plotted,
                   other_vars>>

\* the loader is exhausted: the next epoch starts, or fit returns
EpochEnd ==
    /\ phase = "Training"
    /\ pc = "fetch"
    /\ batch_idx = NumBatches(dataset_len, batch_size)
    /\ current_epoch' = current_epoch + 1
    /\ batch_idx' = 0
    /\ IF current_epoch + 1 >= max_epochs
       THEN phase' = "Completed" /\ pc' = "idle"
       ELSE phase' = "Training" /\ pc' = "fetch"
    /\ UNCHANGED <<config_vars, rng, global_step, batch, bc, pde_error_,
                   boundary_error_, logged, logcount, loss, grad, params, plotted,
                   other_vars>>

\* the cell after fit: net(pt_x, pt_t) on the plotting grid, a forward pass only
Predict ==
    /\ phase = "Completed"
    /\ ~plotted
    /\ plotted' = TRUE
    /\ UNCHANGED <<config_vars, rng, phase, pc, current_epoch, batch_idx, global_step,
                   batch, bc, pde_error_, boundary_error_, logged, logcount, loss,
                   grad, params, other_vars>>

Next ==
    \/ FitStart
    \/ GetItem
    \/ TrainingStep
    \/ Backward
    \/ OptimizerStep
    \/ EpochEnd
    \/ Predict

Spec == Init /\ [][Next]_vars

SpecDomain == InitDomain /\ [][Next]_vars

----------------------------------------------------------------------------
(* pde_error called directly, on the network or on the reference oracle *)

\* the oracle u = 6*exp(-3x-2t) at a point where its value is e: its
\* derivatives are u_x = -3u and u_t = -2u
OracleJet(e) == [u |-> Fin(e), ux |-> FMul(Fin(-3), Fin(e)), ut |-> FMul(Fin(-2), Fin(e))]

OracleJets == {OracleJet(e) : e \in 0..MaxAmp}

InitPde ==
    /\ pde_net \in {"oracle", "network"}
    /\ \E m \in 1..MaxB :
         pde_jets \in [1..m -> (IF pde_net = "oracle" THEN OracleJets ELSE Jets \cup {NaNJet})]
    /\ pde_out = <<>>
    /\ train_idle
    /\ runs_idle

CallPdeError ==
    /\ pde_out = <<>>
    /\ pde_out' = pde_error(pde_jets)
    /\ UNCHANGED <<train_vars, pde_net, pde_jets, runs>>

NextPde == CallPdeError

SpecPde == InitPde /\ [][NextPde]_vars

----------------------------------------------------------------------------
(* The seeding and initialisation cell, executed twice *)

\* the Linear layers of FCNet(2, 1, n_hidden_layers, neurons), in the order
\* they are constructed and in which apply visits them
Shapes(L, N) ==
    <<[in |-> 2, out |-> N]>> \o [i \in 1..(L - 1) |-> [in |-> N, out |-> N]]
        \o <<[in |-> N, out |-> 1]>>

\* a value drawn uniformly from (-a, a): the draw d / RngMod scaled to the
\* interval, kept as the numerator 2d - RngMod together with what fixes a
Uniform(d, kind, fan) == [num |-> 2 * d - RngMod, kind |-> kind, fan |-> fan]
Zero == [num |-> 0, kind |-> "zero", fan |-> 0]

\* nn.Linear(in, out): reset_parameters draws the weight, then the bias
Linear(sh, s) ==
    LET nw == sh.in * sh.out
    IN [in |-> sh.in, out |-> sh.out, requires_grad |-> TRUE,
        weight |-> [i \in 1..nw |-> Uniform(Draws(s, nw)[i], "kaiming", sh.in)],
        bias |-> [i \in 1..sh.out |-> Uniform(Draws(After(s, nw), sh.out)[i], "bias", sh.in)]]

LinearDraws(sh) == sh.in * sh.out + sh.out

\* FCNet.__init__: the layers, each constructed from the generator state the
\* previous ones left
RECURSIVE FCNet(_, _)
FCNet(shapes, s) ==
    IF shapes = <<>> THEN <<>>
    ELSE <<Linear(Head(shapes), s)>> \o FCNet(Tail(shapes), After(s, LinearDraws(Head(shapes))))

RECURSIVE TotalDraws(_)
TotalDraws(shapes) ==
    IF shapes = <<>> THEN 0 ELSE LinearDraws(Head(shapes)) + TotalDraws(Tail(shapes))

\* init_weights(m) of init_xavier: xavier_uniform_ redraws the weight with the
\* tanh gain, and the bias is filled with 0
init_weights(m, s) ==
    IF m.requires_grad
    THEN [m EXCEPT !.weight = [i \in 1..(m.in * m.out) |->
                                 Uniform(Draws(s, m.in * m.out)[i], "xavier", m.in + m.out)],
                   !.bias = [i \in 1..m.out |-> Zero]]
    ELSE m

\* model.apply(init_weights): every layer in order
RECURSIVE init_xavier(_, _)
init_xavier(layers, s) ==
    IF layers = <<>> THEN <<>>
    ELSE <<init_weights(Head(layers), s)>>
            \o init_xavier(Tail(layers), After(s, Head(layers).in * Head(layers).out))

RECURSIVE XavierDraws(_)
XavierDraws(layers) ==
    IF layers = <<>> THEN 0
    ELSE Head(layers).in * Head(layers).out + XavierDraws(Tail(layers))

Runs == {1, 2}

\* two executions with the same seed and the same configuration, each in a
\* process whose generator starts in a state of its own
InitRuns ==
    /\ \E seed \in 0..(RngMod - 1), L \in 1..MaxLayers, N \in 1..MaxNeurons :
         runs \in [Runs -> [seed : {seed}, n_hidden_layers : {L}, neurons : {N},
                            rng0 : 0..(RngMod - 1), rng : 0..(RngMod - 1),
                            pc : {"start"}, net : {<<>>}]]
    /\ \A r \in Runs : runs[r].rng = runs[r].rng0
    /\ train_idle
    /\ pde_idle

\* a seeding that leaves the generator as it was
manual_seed_keep(run) == run.rng

\* the generator state of a run after torch.manual_seed(seed)
manual_seed(run) == ManualSeed(run.seed)

\* torch.manual_seed(seed)
Seed(r) ==
    /\ runs[r].pc = "start"
    /\ runs' = [runs EXCEPT ![r].rng = manual_seed(runs[r]), ![r].pc = "seeded"]
    /\ UNCHANGED <<train_vars, pde_vars>>

\* net = PINNNet(n_hidden_layers, neurons)
Construct(r) ==
    /\ runs[r].pc = "seeded"
    /\ LET shapes == Shapes(runs[r].n_hidden_layers, runs[r].neurons)
       IN runs' = [runs EXCEPT ![r].net = FCNet(shapes, runs[r].rng),
                               ![r].rng = After(runs[r].rng, TotalDraws(shapes)),
                               ![r].pc = "constructed"]
    /\ UNCHANGED <<train_vars, pde_vars>>

\* net.init()
NetInit(r) ==
    /\ runs[r].pc = "constructed"
    /\ runs' = [runs EXCEPT ![r].net = init_xavier(runs[r].net, runs[r].rng),
                            ![r].rng = After(runs[r].rng, XavierDraws(runs[r].net)),
                            ![r].pc = "initialized"]
    /\ UNCHANGED <<train_vars, pde_vars>>

NextRuns == \E r \in Runs : Seed(r) \/ Construct(r) \/ NetInit(r)

SpecRuns == InitRuns /\ [][NextRuns]_vars

----------------------------------------------------------------------------
(* Properties *)

ValidBounds == boundx[1] < boundx[2] /\ boundt[1] < boundt[2]

InStep == pc \in {"backward", "optimizer_step"}

NonFinite(a) == a.k \in {"inf", "nan"}

\* C1: for bounds x_lo < x_hi and t_lo < t_hi, every sample __getitem__ has
\* returned lies in [x_lo, x_hi] x [t_lo, t_hi], whatever the draw, the index
\* and the number of earlier calls.
C1_InteriorInDomain ==
    ValidBounds =>
        \A i \in 1..Len(batch) :
            /\ boundx[1] * RngMod <= batch[i].x /\ batch[i].x <= boundx[2] * RngMod
            /\ boundt[1] * RngMod <= batch[i].t /\ batch[i].t <= boundt[2] * RngMod

\* a sample strictly inside a domain whose lower bounds are not 0, returned in
\* the second batch
C1_Witness ==
    /\ ValidBounds /\ boundx[1] > 0 /\ boundt[1] > 0
    /\ global_step = 1 /\ Len(batch) = 1
    /\ batch[1].x > boundx[1] * RngMod /\ batch[1].t > boundt[1] * RngMod

\* C2: every boundary sample lies on the lower-t edge of the dataset's domain:
\* its t is the domain's lower t bound and its x is within the domain's x bounds.
C2_BoundaryOnDomainEdge ==
    ValidBounds =>
        \A i \in 1..Len(bc) :
            /\ bc[i].t = boundt[1] * RngMod
            /\ boundx[1] * RngMod <= bc[i].x /\ bc[i].x <= boundx[2] * RngMod

\* C3: pde_error returns u_x - 2 u_t - u at every point, and so 0 at every
\* point for the oracle, whose derivatives are u_x = -3u and u_t = -2u.
C3_PdeResidual ==
    \A i \in 1..Len(pde_out) :
        LET j == pde_jets[i]
            exact == j.ux.v - 2 * j.ut.v - j.u.v
        IN /\ pde_net = "oracle" => pde_out[i] = Fin(0)
           /\ (IsFinite(j.u) /\ IsFinite(j.ux) /\ IsFinite(j.ut) /\ Abs(exact) <= MaxFloat)
                 => pde_out[i] = Fin(exact)

\* the oracle evaluated at two points where it is not 0
C3_Witness ==
    /\ pde_net = "oracle" /\ Len(pde_out) = 2
    /\ pde_jets[1].u.v > 0 /\ pde_jets[2].u.v > pde_jets[1].u.v

\* the least q with q * b >= len
CeilDiv(len, b) == CHOOSE q \in 0..len : q * b >= len /\ (q - 1) * b < len

\* the number of steps the run still has to take: a variant of the fit loop
Remaining ==
    LET perEpoch == n + 3 * CeilDiv(n, batch_size) + 1
        fetched == Min(batch_idx * batch_size, n) + Len(batch)
        inStep == IF pc = "backward" THEN 1 ELSE IF pc = "optimizer_step" THEN 2 ELSE 0
    IN (IF phase = "Initialized" THEN 1 ELSE 0) + (IF plotted THEN 0 ELSE 1)
         + (max_epochs - current_epoch) * perEpoch - (fetched + 3 * batch_idx + inStep)

\* C4: a run goes Initialized -> Training -> Completed and terminates (until
\* it is Completed it always has a next step, and every step lowers the
\* variant Remaining, which is never negative); when it is Completed it has
\* made exactly max_epochs * ceil(n / batch_size) steps, and from then on no
\* step is made and the parameters stay as they are.
C4_RunCompletes ==
    /\ [](phase \in {"Initialized", "Training", "Completed"})
    /\ [][phase' # phase =>
            <<phase, phase'>> \in {<<"Initialized", "Training">>, <<"Training", "Completed">>}]_vars
    /\ [](phase = "Completed" \/ ENABLED Next)
    /\ [](Remaining >= 0)
    /\ [][Remaining' < Remaining]_vars
    /\ [](phase = "Completed" => global_step = max_epochs * CeilDiv(n, batch_size))
    /\ [][phase = "Completed" =>
            phase' = "Completed" /\ global_step' = global_step /\ params' = params]_vars

\* a completed run whose batch size does not divide the dataset length
C4_Witness ==
    /\ phase = "Completed" /\ plotted
    /\ n = 3 /\ batch_size = 2 /\ max_epochs = 2 /\ global_step = 4

LogValue(key) == logged[CHOOSE i \in 1..Len(logged) : logged[i].key = key].value

\* C5: every training step logs exactly one value under each of pde_loss,
\* boundary_loss and loss, and the value under loss is the sum of the other two.
C5_LogsPerStep ==
    /\ \A key \in Keys : logcount[key] = global_step + (IF InStep THEN 1 ELSE 0)
    /\ InStep =>
         /\ Len(logged) = 3
         /\ \A key \in Keys : CountKey(logged, key) = 1
         /\ LogValue("loss") = FAdd(LogValue("pde_loss"), LogValue("boundary_loss"))
         /\ (IsFinite(LogValue("pde_loss")) /\ IsFinite(LogValue("boundary_loss"))
             /\ IsFinite(LogValue("loss")))
               => LogValue("loss").v = LogValue("pde_loss").v + LogValue("boundary_loss").v

\* a later step whose two losses are finite and not 0
C5_Witness ==
    /\ InStep /\ global_step >= 1
    /\ IsFinite(LogValue("loss"))
    /\ LogValue("pde_loss").v > 0 /\ LogValue("boundary_loss").v > 0

\* C6: with a lower bound >= the upper bound on either coordinate no training
\* step is executed and the parameters are never updated.
C6_InvalidBoundsNeverTrain ==
    ~ValidBounds => (pde_error_ = <<>> /\ global_step = 0 /\ params.version = 0)

AllInitialized == \A r \in Runs : runs # <<>> /\ runs[r].pc = "initialized"

\* C7: two runs with the same seed and the same configuration end with the
\* same value in every weight matrix and every bias vector, the biases all 0.
C7_InitDeterministic ==
    AllInitialized =>
        /\ runs[1].net = runs[2].net
        /\ \A r \in Runs : \A l \in 1..Len(runs[r].net) :
             \A i \in 1..Len(runs[r].net[l].bias) : runs[r].net[l].bias[i] = Zero

\* two runs of the largest network whose generators started in different states
C7_Witness ==
    /\ AllInitialized
    /\ runs[1].rng0 # runs[2].rng0
    /\ runs[1].n_hidden_layers = MaxLayers /\ runs[1].neurons = MaxNeurons
    /\ \E i \in 1..Len(runs[1].net[1].weight) :
         runs[1].net[1].weight[i] # runs[1].net[1].weight[1]

\* C8: the parameters are written once per training step, by the optimizer
\* update and by nothing else: fetching the interior batch, training_step (the
\* two residuals, the boundary batch, the logging) and the backward pass leave
\* them as they are.
C8_ParamsOncePerStep ==
    /\ [](params.version = global_step)
    /\ [][params' # params =>
            /\ pc = "optimizer_step"
            /\ params'.version = params.version + 1
            /\ global_step' = global_step + 1]_vars
    /\ [][(pc # "optimizer_step") => params' = params]_vars
    /\ [][global_step' # global_step => params' # params]_vars

\* two steps have been made
C8_Witness == global_step = 2 /\ params.version = 2 /\ pc = "backward"

\* C9: in every training step the boundary batch has as many points as the
\* interior batch, also for a last batch shorter than batch_size.
C9_BoundarySameSize ==
    InStep =>
        /\ Len(bc) = Len(batch)
        /\ Len(boundary_error_) = Len(pde_error_)
        /\ Len(pde_error_) = Len(batch)

\* the short last batch of an epoch
C9_Witness ==
    /\ InStep /\ n = 3 /\ batch_size = 2 /\ batch_idx = 1
    /\ Len(batch) = 1 /\ Len(bc) = 1

ResidualNonFinite ==
    \/ \E i \in 1..Len(pde_error_) : NonFinite(pde_error_[i])
    \/ \E i \in 1..Len(boundary_error_) : NonFinite(boundary_error_[i])

====
